---- MODULE Spec2Model ----
(***************************************************************************)
(* State-machine model of src/server.py: the FastAPI backend that keeps a  *)
(* table of licensed servers (id, api key, expiration, online count) and a *)
(* log of telemetry checks in one sqlite database.                         *)
(*                                                                         *)
(* Time is counted in days; the clock reads of one handler fall on one day.*)
(* uuid.uuid4() is a nondeterministic draw from a small space, so two      *)
(* draws may be equal.  A float is an exact rational [n, d] in lowest      *)
(* terms; jerk inputs are given in tenths, from a grid on which the float  *)
(* arithmetic of predict and the exact one agree in every comparison for   *)
(* lists of up to four ticks.                                              *)
(*                                                                         *)
(* Every handler opens its own sqlite connection.  create_server has no    *)
(* try/finally: when its INSERT raises, the connection is neither rolled   *)
(* back nor closed and keeps the database's write lock until the garbage   *)
(* collector finalizes it; until then every write of another connection    *)
(* fails with "database is locked".                                        *)
(***************************************************************************)
EXTENDS Integers, Sequences, FiniteSets

VARIABLES servers, checks, now, resp, task, served, locked

vars == <<servers, checks, now, resp, task, served, locked>>

\* ----------------------------------------------------------------- bounds
NumIds == 2
NumKeys == 2
MaxNow == 4
MaxRequests == 3
MaxExpire == 64
MaxTicks == 2
ScoreLog == 2
StatsLog == 51
LogMaxNow == 1

\* ------------------------------------------------------ program constants
LicenseDays == 30
TrialDays == 3
TrialLimit == 50
StandardLimit == 100
RecentLimit == 50

\* ------------------------------------------------------------ input sets
Ids == 1..NumIds
KeyHex == 1..NumKeys
Names == {"Alpha"}
HbCounts == {-1, 2}
Players == {"p1"}
Reqs == {"r1", "r2"}

\* ---------------------------------------------------------------- helpers
RECURSIVE GCD(_, _)
GCD(a, b) == IF b = 0 THEN a ELSE GCD(b, a % b)

Abs(x) == IF x < 0 THEN -x ELSE x

\* the float n/d, d > 0, n >= 0
Rat(n, d) == LET g == GCD(n, d) IN [n |-> n \div g, d |-> d \div g]

RatGt(p, q) == p.n * q.d > q.n * p.d

Half == Rat(1, 2)

\* "mls_live_" + str(uuid.uuid4()).replace("-", "")[:24]
NewKey(u) == <<"mls_live_", u>>

KeyInputs == {NewKey(u) : u \in KeyHex}

\* sqlite3's adapter stores a datetime as its ISO text; fromisoformat reads it
AdaptDatetime(t) == [iso |-> t]

FromIsoFormat(s) == s.iso

\* the indexes of the rows that a WHERE clause selects, in rowid order
RowsWhereId(S, server_id) == {i \in 1..Len(S) : S[i].id = server_id}

RowsWhereKey(S, key) == {i \in 1..Len(S) : S[i].api_key = key}

MinOf(I) == CHOOSE i \in I : \A j \in I : i <= j

HttpError(op, arg, code, detail) ==
    [op |-> op, arg |-> arg, status |-> code, body |-> [detail |-> detail]]

HttpOk(op, arg, body) == [op |-> op, arg |-> arg, status |-> 200, body |-> body]

NoTask == [pc |-> "idle", op |-> "none", id |-> 0, val |-> 0]

\* an exception no handler catches (sqlite3.IntegrityError, sqlite3.OperationalError)
\* is answered by the framework with 500
Unhandled(op, arg) == HttpError(op, arg, 500, "Internal Server Error")

\* ------------------------------------------------------------------ init_db
TrialRow(trial_id, u, t) ==
    [id |-> trial_id, name |-> "Trial Server", api_key |-> NewKey(u),
     license_type |-> "Trial period",
     expiration_date |-> AdaptDatetime(t + TrialDays), status |-> "Active",
     online_count |-> 0, limit_count |-> TrialLimit, requests_today |-> 0,
     detections_total |-> 0]

Init ==
    /\ now = 0
    \* uuid values are interchangeable: the two first draws are called 1
    /\ servers = <<TrialRow(1, 1, 0)>>
    /\ checks = <<>>
    /\ resp = [op |-> "none", arg |-> 0, status |-> 0, body |-> [detail |-> "none"]]
    /\ task = [r \in Reqs |-> NoTask]
    /\ served = 0
    /\ locked = FALSE

\* ---------------------------------------------------------------- handlers
\* Each handler is an operator from the database (and its inputs) to the
\* database after it and the HTTP response.  L says that a connection another
\* request left open holds the write lock: the first INSERT or UPDATE of the
\* handler then raises OperationalError("database is locked") after the busy
\* timeout.  A handler on the servers table gives [servers, resp, locked].

heartbeat(S, L, server_id, online_count) ==
    LET hit == RowsWhereId(S, server_id) IN
    IF L
    \* line 80: the UPDATE cannot take the write lock, whatever the id
    THEN [servers |-> S, resp |-> Unhandled("heartbeat", server_id), locked |-> L]
    ELSE IF hit = {}
    \* lines 82-84: conn.close() gives up the transaction the UPDATE began
    THEN [servers |-> S,
          resp |-> HttpError("heartbeat", server_id, 404, "Server not found"),
          locked |-> L]
    ELSE [servers |-> [i \in 1..Len(S) |->
                          IF i \in hit THEN [S[i] EXCEPT !.online_count = online_count]
                          ELSE S[i]],
          resp |-> HttpOk("heartbeat", server_id, [success |-> TRUE]),
          locked |-> L]

\* The handlers that only SELECT are served while the write lock is held.
get_servers(S) == [servers |-> S, resp |-> HttpOk("get_servers", 0, [servers |-> S])]

\* a registration that copies the trial row's limit
create_server_trial_limit(S, L, name, new_uuid, key_uuid, t) ==
    LET row == [id |-> new_uuid, name |-> name, api_key |-> NewKey(key_uuid),
                license_type |-> "Standard License",
                expiration_date |-> AdaptDatetime(t + LicenseDays), status |-> "Active",
                online_count |-> 0, limit_count |-> TrialLimit,
                requests_today |-> 0, detections_total |-> 0]
    IN  IF L
        THEN [servers |-> S, resp |-> Unhandled("create_server", new_uuid), locked |-> L]
        ELSE IF RowsWhereId(S, new_uuid) # {}
        THEN [servers |-> S, resp |-> Unhandled("create_server", new_uuid), locked |-> TRUE]
        ELSE [servers |-> Append(S, row),
              resp |-> HttpOk("create_server", new_uuid, [success |-> TRUE, id |-> new_uuid]),
              locked |-> L]

create_server(S, L, name, new_uuid, key_uuid, t) ==
    LET new_key == NewKey(key_uuid)
        expire_date == t + LicenseDays
        row == [id |-> new_uuid, name |-> name, api_key |-> new_key,
                license_type |-> "Standard License",
                expiration_date |-> AdaptDatetime(expire_date), status |-> "Active",
                online_count |-> 0, limit_count |-> StandardLimit,
                requests_today |-> 0, detections_total |-> 0]
    IN  IF L
        \* lines 108-109: the INSERT cannot take the write lock; the connection
        \* this call leaves open holds no lock
        THEN [servers |-> S, resp |-> Unhandled("create_server", new_uuid), locked |-> L]
        ELSE IF RowsWhereId(S, new_uuid) # {}
        \* id TEXT PRIMARY KEY: the INSERT raises IntegrityError inside the
        \* transaction it began; lines 110-111 are not reached, so nothing is
        \* stored and the open connection keeps the write lock
        THEN [servers |-> S, resp |-> Unhandled("create_server", new_uuid), locked |-> TRUE]
        ELSE [servers |-> Append(S, row),
              resp |-> HttpOk("create_server", new_uuid, [success |-> TRUE, id |-> new_uuid]),
              locked |-> L]

get_server(S, server_id) ==
    LET hit == RowsWhereId(S, server_id) IN
    IF hit = {}
    THEN [servers |-> S, resp |-> HttpError("get_server", server_id, 404, "Server not found")]
    ELSE [servers |-> S, resp |-> HttpOk("get_server", server_id, [row |-> S[MinOf(hit)]])]

\* a rotation whose UPDATE has lost its WHERE clause
reset_key_no_where(S, L, server_id, key_uuid) ==
    IF L
    THEN [servers |-> S, resp |-> Unhandled("reset_key", server_id), locked |-> L]
    ELSE [servers |-> [i \in 1..Len(S) |-> [S[i] EXCEPT !.api_key = NewKey(key_uuid)]],
          resp |-> IF RowsWhereId(S, server_id) = {}
                   THEN HttpError("reset_key", server_id, 404, "Server not found")
                   ELSE HttpOk("reset_key", server_id, [api_key |-> NewKey(key_uuid)]),
          locked |-> L]

reset_key(S, L, server_id, key_uuid) ==
    LET new_key == NewKey(key_uuid)
        hit == RowsWhereId(S, server_id)
    IN  IF L
        \* line 134: the UPDATE cannot take the write lock, whatever the id
        THEN [servers |-> S, resp |-> Unhandled("reset_key", server_id), locked |-> L]
        ELSE IF hit = {}
        THEN [servers |-> S,
              resp |-> HttpError("reset_key", server_id, 404, "Server not found"),
              locked |-> L]
        ELSE [servers |-> [i \in 1..Len(S) |->
                              IF i \in hit THEN [S[i] EXCEPT !.api_key = new_key]
                              ELSE S[i]],
              resp |-> HttpOk("reset_key", server_id, [api_key |-> new_key]),
              locked |-> L]

verify_server(S, key) ==
    LET hit == RowsWhereKey(S, key) IN
    IF hit = {}
    THEN [servers |-> S, resp |-> HttpError("verify_server", key, 401, "Invalid API Key")]
    ELSE [servers |-> S, resp |-> HttpOk("verify_server", key, [row |-> S[MinOf(hit)]])]

\* a renewal that restarts from the clock instead of stacking
new_expire_restart(current_expire, t) == t + LicenseDays

\* lines 170-175: the new expiration from the one read and the clock
new_expire(current_expire, t) ==
    IF current_expire < t THEN t + LicenseDays ELSE current_expire + LicenseDays

\* lines 177-180: the UPDATE of the renewal and its response
renew_update(S, L, server_id, expire) ==
    IF L
    THEN [servers |-> S, resp |-> Unhandled("renew_server", server_id), locked |-> L]
    ELSE [servers |-> [i \in 1..Len(S) |->
                          IF S[i].id = server_id
                          THEN [S[i] EXCEPT !.expiration_date = AdaptDatetime(expire),
                                            !.status = "Active"]
                          ELSE S[i]],
          resp |-> HttpOk("renew_server", server_id,
                          [success |-> TRUE, expiration_date |-> expire]),
          locked |-> L]

renew_server(S, L, server_id, t) ==
    LET hit == RowsWhereId(S, server_id) IN
    IF hit = {}
    \* lines 162-168: the SELECT is served under the lock, so an unknown id is
    \* still answered 404
    THEN [servers |-> S,
          resp |-> HttpError("renew_server", server_id, 404, "Server not found"),
          locked |-> L]
    ELSE LET current_expire == FromIsoFormat(S[MinOf(hit)].expiration_date)
         IN  renew_update(S, L, server_id, new_expire(current_expire, t))

\* ---------------------------------------------------------------- telemetry
\* A tick is [jerkYaw, jerkPitch] in tenths; the other six fields of TickData
\* are not read by predict.
JerkYaws == {-12, 0, 10, 20}
JerkPitches == {0}
TickVals == {[jerkYaw |-> y, jerkPitch |-> p] : y \in JerkYaws, p \in JerkPitches}

RECURSIVE SeqsUpTo(_, _)
SeqsUpTo(S, n) ==
    IF n = 0 THEN {<<>>}
    ELSE LET shorter == SeqsUpTo(S, n - 1) IN
         shorter \cup {Append(q, x) : q \in {z \in shorter : Len(z) = n - 1}, x \in S}

TickLists == SeqsUpTo(TickVals, MaxTicks)

\* the ticks a licensed server submits in the full system
FleetTickLists == {<<[jerkYaw |-> 20, jerkPitch |-> 0]>>}

\* the ticks submitted while the log fills up
StatsTickLists == {<<[jerkYaw |-> 20, jerkPitch |-> 0]>>}

\* values random.uniform(0.0, 0.3) can return
LowProbs == {Rat(0, 1), Rat(3, 10)}

RECURSIVE SumJerk(_)
SumJerk(ticks) ==
    IF ticks = <<>> THEN 0
    ELSE Abs(Head(ticks).jerkYaw) + Abs(Head(ticks).jerkPitch) + SumJerk(Tail(ticks))

avg_jerk(ticks) == IF ticks # <<>> THEN Rat(SumJerk(ticks), 10 * Len(ticks)) ELSE Rat(0, 1)

\* lines 202-206
probability(avg, rnd) ==
    IF RatGt(avg, Half)
    THEN LET half_avg == Rat(avg.n, 2 * avg.d) IN
         IF RatGt(half_avg, Rat(99, 100)) THEN Rat(99, 100) ELSE half_avg
    ELSE rnd

\* thresholds that include their bound
verdict_inclusive(p) ==
    IF ~RatGt(Rat(8, 10), p) THEN "CHEAT"
    ELSE IF ~RatGt(Rat(5, 10), p) THEN "SUSPICIOUS"
    ELSE "LEGIT"

\* lines 208-212
verdict(p) ==
    IF RatGt(p, Rat(8, 10)) THEN "CHEAT"
    ELSE IF RatGt(p, Rat(5, 10)) THEN "SUSPICIOUS"
    ELSE "LEGIT"

\* A handler on the checks table gives [checks, resp].
predict(C, L, playerUuid, ticks, rnd, t) ==
    LET avg == avg_jerk(ticks)
        p == probability(avg, rnd)
        row == [id |-> Len(C) + 1, player_uuid |-> playerUuid,
                timestamp |-> AdaptDatetime(t), probability |-> p, avg_jerk |-> avg,
                verdict |-> verdict(p)]
    IN  IF L
        \* lines 216-219: the INSERT cannot take the write lock
        THEN [checks |-> C, resp |-> Unhandled("predict", playerUuid)]
        ELSE [checks |-> Append(C, row),
              resp |-> HttpOk("predict", playerUuid, [probability |-> p])]

\* ORDER BY id without DESC
OrderByIdAsc(C) == C

\* ORDER BY id DESC LIMIT n
\* the index of the row with the greatest id among rows i..Len(C) and row best
RECURSIVE ArgMaxId(_, _, _)
ArgMaxId(C, i, best) ==
    IF i > Len(C) THEN best
    ELSE ArgMaxId(C, i + 1, IF C[i].id > C[best].id THEN i ELSE best)

RECURSIVE OrderByIdDesc(_)
OrderByIdDesc(C) ==
    IF C = <<>> THEN <<>>
    ELSE LET m == ArgMaxId(C, 2, 1)
         IN  <<C[m]>> \o OrderByIdDesc(SubSeq(C, 1, m - 1) \o SubSeq(C, m + 1, Len(C)))

Limit(rows, n) == SubSeq(rows, 1, IF Len(rows) < n THEN Len(rows) ELSE n)

recent_checks(C) ==
    LET rows == Limit(OrderByIdDesc(C), RecentLimit) IN
    [k \in 1..Len(rows) |->
        [player |-> rows[k].player_uuid, time |-> rows[k].timestamp,
         prob |-> rows[k].probability, verdict |-> rows[k].verdict]]

get_stats(C) ==
    [checks |-> C,
     resp |-> HttpOk("get_stats", 0,
                     [total_checks |-> Len(C),
                      flagged_count |->
                          Cardinality({i \in 1..Len(C) : RatGt(C[i].probability, Rat(8, 10))}),
                      recent_checks |-> recent_checks(C)])]

\* ------------------------------------------------------------ the actions
Tick(limit) ==
    /\ now < limit
    /\ now' = now + 1
    /\ UNCHANGED <<servers, checks, resp, task, served, locked>>

\* the server answers one more request
Counted ==
    /\ served < MaxRequests
    /\ served' = served + 1

Uncounted == served' = served

StoreStep(r) ==
    /\ Counted
    /\ servers' = r.servers
    /\ resp' = r.resp
    /\ locked' = r.locked
    /\ UNCHANGED <<checks, now, task>>

\* a handler that only SELECTs closes its connection and holds no lock
ReadStep(r) ==
    /\ Counted
    /\ servers' = r.servers
    /\ resp' = r.resp
    /\ UNCHANGED <<checks, now, task, locked>>

Heartbeat == \E id \in Ids, n \in HbCounts : StoreStep(heartbeat(servers, locked, id, n))

GetServers == ReadStep(get_servers(servers))

CreateServer ==
    \E name \in Names, id \in Ids, u \in KeyHex :
        StoreStep(create_server(servers, locked, name, id, u, now))

GetServer == \E id \in Ids : ReadStep(get_server(servers, id))

ResetKey == \E id \in Ids, u \in KeyHex : StoreStep(reset_key(servers, locked, id, u))

VerifyServer == \E key \in KeyInputs : ReadStep(verify_server(servers, key))

RenewServer == \E id \in Ids : StoreStep(renew_server(servers, locked, id, now))

\* The connection a failed create_server left open is finalized by the
\* garbage collector at a moment the program does not choose: its
\* transaction is rolled back and the write lock is released.
Collect ==
    /\ locked
    /\ locked' = FALSE
    /\ UNCHANGED <<servers, checks, now, resp, task, served>>

LogStep(r) ==
    /\ checks' = r.checks
    /\ resp' = r.resp
    /\ UNCHANGED <<servers, now, task, locked>>

Predict(ticklists) ==
    \E player \in Players, ticks \in ticklists, rnd \in LowProbs :
        LogStep(predict(checks, locked, player, ticks, rnd, now))

GetStats == LogStep(get_stats(checks))

Clock == Tick(MaxNow)

FleetPredict == Counted /\ Predict(FleetTickLists)

FleetGetStats == Counted /\ GetStats

Next ==
    \/ Clock
    \/ Heartbeat
    \/ GetServers
    \/ CreateServer
    \/ GetServer
    \/ ResetKey
    \/ VerifyServer
    \/ RenewServer
    \/ FleetPredict
    \/ FleetGetStats
    \/ Collect

Spec == Init /\ [][Next]_vars

\* -------------------------------------------- the telemetry scorer on its own
ScoreClock == Tick(LogMaxNow)

ScorePredict == Len(checks) < ScoreLog /\ Uncounted /\ Predict(TickLists)

LogGetStats == Uncounted /\ GetStats

NextScore ==
    \/ ScoreClock
    \/ ScorePredict
    \/ LogGetStats

SpecScore == Init /\ [][NextScore]_vars

\* ------------------------------------------------------ the log filling up
StatsPredict == Len(checks) < StatsLog /\ Uncounted /\ Predict(StatsTickLists)

NextStats ==
    \/ ScoreClock
    \/ StatsPredict
    \/ LogGetStats

SpecStats == Init /\ [][NextStats]_vars

\* a server whose handlers may be resumed in any order
LoopShared(r) == TRUE

\* ------------------------------------- two requests in flight, step by step
\* uvicorn.run(app) serves every request on one event loop; the handlers are
\* coroutines that contain no await, so a handler that has begun runs to its
\* return before the loop resumes another one.
LoopFree(r) == \A q \in Reqs \ {r} : task[q].pc \in {"idle", "queued"}

ConcOps == {"renew_server", "reset_key"}

Arrive(r) ==
    /\ task[r].pc = "idle"
    /\ \E op \in ConcOps, id \in Ids :
           task' = [task EXCEPT ![r] = [pc |-> "queued", op |-> op, id |-> id, val |-> 0]]
    /\ UNCHANGED <<servers, checks, now, resp, served, locked>>

\* lines 160-168: SELECT expiration_date, 404 when there is no row
RenewSelect(r) ==
    /\ task[r].pc = "queued"
    /\ task[r].op = "renew_server"
    /\ LoopFree(r)
    /\ LET hit == RowsWhereId(servers, task[r].id) IN
       IF hit = {}
       THEN /\ resp' = renew_server(servers, locked, task[r].id, now).resp
            /\ task' = [task EXCEPT ![r] = NoTask]
       ELSE LET row == servers[MinOf(hit)].expiration_date IN
            /\ FromIsoFormat(row) + LicenseDays <= MaxExpire
            /\ task' = [task EXCEPT ![r].pc = "fetched", ![r].val = row]
            /\ resp' = resp
    /\ UNCHANGED <<servers, checks, now, served, locked>>

\* lines 170-180: compare with the clock, UPDATE, commit, return
RenewUpdate(r) ==
    /\ task[r].pc = "fetched"
    /\ LET current_expire == FromIsoFormat(task[r].val)
           res == renew_update(servers, locked, task[r].id, new_expire(current_expire, now))
       IN  /\ servers' = res.servers
           /\ resp' = res.resp
           /\ locked' = res.locked
    /\ task' = [task EXCEPT ![r] = NoTask]
    /\ UNCHANGED <<checks, now, served>>

\* line 133: the new key is drawn before the UPDATE
ResetGenerate(r) ==
    /\ task[r].pc = "queued"
    /\ task[r].op = "reset_key"
    /\ LoopFree(r)
    /\ \E u \in KeyHex : task' = [task EXCEPT ![r].pc = "generated", ![r].val = u]
    /\ UNCHANGED <<servers, checks, now, resp, served, locked>>

\* lines 134-142: UPDATE, 404 when no row was changed, commit, return
ResetUpdate(r) ==
    /\ task[r].pc = "generated"
    /\ LET res == reset_key(servers, locked, task[r].id, task[r].val) IN
       /\ servers' = res.servers
       /\ resp' = res.resp
       /\ locked' = res.locked
    /\ task' = [task EXCEPT ![r] = NoTask]
    /\ UNCHANGED <<checks, now, served>>

NextConc ==
    \/ Clock
    \/ \E r \in Reqs : Arrive(r)
    \/ \E r \in Reqs : RenewSelect(r)
    \/ \E r \in Reqs : RenewUpdate(r)
    \/ \E r \in Reqs : ResetGenerate(r)
    \/ \E r \in Reqs : ResetUpdate(r)

SpecConc == Init /\ [][NextConc]_vars

\* ================================================================ the claims
ServerIds(S) == {S[i].id : i \in 1..Len(S)}

Expiry(row) == FromIsoFormat(row.expiration_date)

\* a step in which the server answered a request
Answered == served' # served

Returned(op) == Answered /\ resp'.op = op

\* C1: no two distinct server records hold the same api key.
C1_ApiKeysUnique ==
    \A i, j \in 1..Len(servers) : i # j => servers[i].api_key # servers[j].api_key

\* C2: once reset_key(id) has succeeded, the key the server held before it is
\* rejected by verify_server (401) and the returned key verifies as that
\* server; stated for the verification issued first after the rotation.
C2_OldKeyRejected ==
    [][(Returned("reset_key") /\ resp'.status = 200) =>
          \A i \in 1..Len(servers) :
              servers[i].id = resp'.arg =>
                  /\ verify_server(servers', servers[i].api_key).resp.status = 401
                  /\ verify_server(servers', resp'.body.api_key).resp.status = 200
                  /\ verify_server(servers', resp'.body.api_key).resp.body.row.id = resp'.arg]_vars

\* C3: a heartbeat with a negative count is refused, so every stored
\* online_count is >= 0.
C3_OnlineCountNonNegative == \A i \in 1..Len(servers) : servers[i].online_count >= 0

\* C4: a successful renewal sets the expiration to 30 days after the later of
\* the clock and the prior expiration (clock + 30 when the prior one is
\* strictly before the clock, prior + 30 otherwise); the new expiration is
\* neither before the prior one nor before clock + 30, the status is Active,
\* and the response carries the new expiration.
C4_RenewStacks ==
    [][(Returned("renew_server") /\ resp'.status = 200) =>
          \A i \in 1..Len(servers) :
              servers[i].id = resp'.arg =>
                  LET prior == Expiry(servers[i])
                      after == Expiry(servers'[i])
                  IN  /\ after = (IF prior < now THEN now ELSE prior) + 30
                      /\ after >= prior
                      /\ after >= now + 30
                      /\ servers'[i].status = "Active"
                      /\ resp'.body.expiration_date = after]_vars

\* the trial license, expired for a day, was renewed from the clock
C4_Witness ==
    /\ resp.op = "renew_server"
    /\ resp.status = 200
    /\ now > TrialDays
    /\ resp.body.expiration_date = now + LicenseDays
    /\ \E i \in 1..Len(servers) :
           /\ servers[i].id = resp.arg
           /\ servers[i].license_type = "Trial period"
           /\ Expiry(servers[i]) = now + LicenseDays

\* C5: every stored check has the verdict its stored probability determines:
\* CHEAT iff probability > 0.8, SUSPICIOUS iff 0.5 < probability <= 0.8,
\* LEGIT otherwise.
C5_VerdictMatchesProbability ==
    \A i \in 1..Len(checks) :
        LET p == checks[i].probability
            v == checks[i].verdict
        IN  /\ v \in {"CHEAT", "SUSPICIOUS", "LEGIT"}
            /\ v = "CHEAT" <=> 10 * p.n > 8 * p.d
            /\ v = "SUSPICIOUS" <=> (10 * p.n > 5 * p.d /\ 10 * p.n <= 8 * p.d)
            /\ v = "LEGIT" <=> 10 * p.n <= 5 * p.d

\* the log holds a check at exactly 0.8 and one at exactly 0.5
C5_Witness ==
    \E i, j \in 1..Len(checks) :
        /\ checks[i].probability = [n |-> 4, d |-> 5]
        /\ checks[i].verdict = "SUSPICIOUS"
        /\ checks[j].probability = [n |-> 1, d |-> 2]
        /\ checks[j].verdict = "LEGIT"

\* C6: after n predict calls have appended their checks, get_stats returns
\* total_checks = n and the min(n, 50) most recently appended checks, most
\* recent first.
C6_RecentIsNewestFirst ==
    resp.op = "get_stats" =>
        LET n == Len(checks)
            recent == resp.body.recent_checks
        IN  /\ resp.body.total_checks = n
            /\ Len(recent) = (IF n < 50 THEN n ELSE 50)
            /\ \A k \in 1..Len(recent) :
                   recent[k] = [player |-> checks[n + 1 - k].player_uuid,
                                time |-> checks[n + 1 - k].timestamp,
                                prob |-> checks[n + 1 - k].probability,
                                verdict |-> checks[n + 1 - k].verdict]

\* get_stats answered over a log of more than 50 checks taken at different times
C6_Witness ==
    /\ resp.op = "get_stats"
    /\ Len(checks) > RecentLimit
    /\ Len(resp.body.recent_checks) = RecentLimit
    /\ checks[1].timestamp # checks[Len(checks)].timestamp

\* C7: a handler that returns an error changes neither the servers nor the
\* check log; get_server, reset_key, renew_server and heartbeat on an unknown
\* id return 404 and verify_server on an unknown key returns 401.
C7_ErrorsChangeNothing ==
    [][Answered =>
          /\ resp'.status # 200 => (servers' = servers /\ checks' = checks)
          /\ (/\ resp'.op \in {"get_server", "reset_key", "renew_server", "heartbeat"}
              /\ resp'.arg \notin ServerIds(servers))
                 => (resp'.status = 404 /\ servers' = servers /\ checks' = checks)
          /\ (/\ resp'.op = "verify_server"
              /\ \A i \in 1..Len(servers) : servers[i].api_key # resp'.arg)
                 => (resp'.status = 401 /\ servers' = servers /\ checks' = checks)]_vars

NewRowOk(S, row, t) ==
    /\ row.id \notin ServerIds(S)
    /\ row.status = "Active"
    /\ row.online_count = 0
    /\ row.limit_count = 100
    /\ row.license_type = "Standard License"
    /\ FromIsoFormat(row.expiration_date) = t + 30

\* C8 as stated: a create_server that succeeds adds exactly one record, with a
\* new id, status Active, online_count 0, limit_count 100, license "Standard
\* License" and expiration clock + 30 days, leaves the existing records
\* unchanged, and returns the id and the api key of the new record.
C8_CreateReturnsIdAndKey ==
    [][(Returned("create_server") /\ resp'.status = 200) =>
          /\ Len(servers') = Len(servers) + 1
          /\ SubSeq(servers', 1, Len(servers)) = servers
          /\ NewRowOk(servers, servers'[Len(servers')], now)
          /\ resp'.body.id = servers'[Len(servers')].id
          /\ "api_key" \in DOMAIN resp'.body
          /\ resp'.body.api_key = servers'[Len(servers')].api_key]_vars

\* C8 amended: a successful create_server adds exactly that record, leaves the
\* existing ones unchanged, and returns the success flag and the id of the
\* new record, not its api key.
C8_CreateReturnsId ==
    [][(Returned("create_server") /\ resp'.status = 200) =>
          /\ Len(servers') = Len(servers) + 1
          /\ SubSeq(servers', 1, Len(servers)) = servers
          /\ NewRowOk(servers, servers'[Len(servers')], now)
          /\ DOMAIN resp'.body = {"success", "id"}
          /\ resp'.body.id = servers'[Len(servers')].id]_vars

\* a server was registered next to the trial server after the clock moved
C8_Witness ==
    /\ resp.op = "create_server"
    /\ resp.status = 200
    /\ now > 0
    /\ Len(servers) = 2
    /\ servers[2].id = resp.arg
    /\ servers[2].limit_count = StandardLimit

\* C9: a record's api key changes only in reset_key on its id, its expiration
\* and status only in renew_server on its id, its online_count only in
\* heartbeat on its id; its id never changes, no record is removed, and
\* get_servers, get_server, verify_server, get_stats and predict change no record.
C9_FieldsHaveOneWriter ==
    [][/\ Len(servers') >= Len(servers)
       /\ \A i \in 1..Len(servers) :
              /\ servers'[i].id = servers[i].id
              /\ servers'[i].api_key # servers[i].api_key
                     => (resp'.op = "reset_key" /\ resp'.arg = servers[i].id)
              /\ (\/ servers'[i].expiration_date # servers[i].expiration_date
                  \/ servers'[i].status # servers[i].status)
                     => (resp'.op = "renew_server" /\ resp'.arg = servers[i].id)
              /\ servers'[i].online_count # servers[i].online_count
                     => (resp'.op = "heartbeat" /\ resp'.arg = servers[i].id)
       /\ (/\ Answered
           /\ resp'.op \in {"get_servers", "get_server", "verify_server",
                            "get_stats", "predict"})
              => servers' = servers]_vars

\* the key of one of two servers was rotated and the other kept a different key
C9_Witness ==
    /\ resp.op = "reset_key"
    /\ resp.status = 200
    /\ Len(servers) = 2
    /\ \E i, j \in 1..2 :
           /\ servers[i].id = resp.arg
           /\ servers[i].api_key = resp.body.api_key
           /\ servers[j].api_key # resp.body.api_key

InHandler(r) == task[r].pc \in {"fetched", "generated"}

\* C10: two requests on one id are served one after the other: at most one
\* handler is between its first statement and its return, the UPDATE of a
\* renewal is computed from the expiration stored at that moment (so every
\* renewal adds its 30 days: two renewals of an unexpired license leave prior
\* + 60), and the UPDATE of a rotation stores exactly the returned key.
C10_RequestsSerialized ==
    [][\A r \in Reqs :
          /\ InHandler(r)' => \A q \in Reqs \ {r} : ~InHandler(q)'
          /\ (task[r].pc = "fetched" /\ task'[r].pc = "idle") =>
                 \A i \in 1..Len(servers) :
                     servers[i].id = task[r].id =>
                         LET prior == Expiry(servers[i]) IN
                         /\ Expiry(servers'[i]) = (IF prior < now THEN now ELSE prior) + 30
                         /\ servers'[i].status = "Active"
                         /\ servers'[i].api_key = servers[i].api_key
          /\ (task[r].pc = "generated" /\ task'[r].pc = "idle") =>
                 \A i \in 1..Len(servers) :
                     servers[i].id = task[r].id =>
                         servers'[i] = [servers[i] EXCEPT !.api_key = resp'.body.api_key]]_vars

\* a second renewal of the unexpired trial license has read the expiration the
\* first one stored, while the other request, a renewal of the same id, waits
C10_Witness ==
    \E r, q \in Reqs :
        /\ r # q
        /\ task[r].pc = "fetched"
        /\ task[q].pc = "queued"
        /\ task[q].op = "renew_server"
        /\ task[q].id = task[r].id
        /\ FromIsoFormat(task[r].val) = TrialDays + LicenseDays
        /\ now <= TrialDays

====
